---- MODULE Spec2Model ----
(***************************************************************************)
(* pyrad/utils/visualization.py: apply_colormap and apply_depth_colormap.  *)
(*                                                                         *)
(* Both functions are pure.  A state of the model is one call: its         *)
(* arguments (drawn by Init), and, once the call has run, its locals and   *)
(* what it returned or raised.                                             *)
(*                                                                         *)
(* Numbers.  A scalar is a/2 + b*eps, held as the record [a, b]: a counts   *)
(* halves, b counts multiples of eps = 1e-10, the constant of line 53.     *)
(* Every coefficient of the model is far below 1e9, so the sign of         *)
(* a/2 + b*eps is the sign of a, or of b when a = 0: comparisons are those *)
(* of real arithmetic with eps = 1e-10 exactly.  A tensor element is a     *)
(* quotient n/d of two scalars, or NaN, +inf, -inf.                        *)
(*                                                                         *)
(* Rounding.  A float32 (24 bit significand) cannot hold a nonzero number  *)
(* of halves together with a multiple of 1e-10: half an ulp of 0.5 is      *)
(* 2^-25 > 1e-8, so the eps part is rounded away (Round).  A float64       *)
(* holds both.  Quotients and products are exact: on the values Init       *)
(* draws (halves, eps, 2*eps, and apply_colormap's multiples of 1/510) the *)
(* indices so computed are those of IEEE 754 arithmetic in either dtype.   *)
(***************************************************************************)
EXTENDS Integers, Sequences, FiniteSets, TLC

VARIABLES fn, image, depth, accumulation, near_plane, far_plane, cmap,
          pc, near, far, image_long, colored_image, result

vars == <<fn, image, depth, accumulation, near_plane, far_plane, cmap,
          pc, near, far, image_long, colored_image, result>>

(***************************************************************************)
(* Bounds of the model.                                                    *)
(***************************************************************************)
\* pixels of a tensor: 1..MaxPixels
MaxPixels == 3
\* depth values and planes are halves from 0 to MaxDepth/2 (or eps, 2*eps)
MaxDepth == 2
\* accumulation values are multiples of 1/AccScale in [0, 1]
AccScale == 2
\* pixels of a call that passes an accumulation mask: 1..MaxMaskPixels
MaxMaskPixels == 2
\* apply_colormap's inputs reach ImageOver/510 below 0 and above 1
ImageOver == 4

(***************************************************************************)
(* Constants of the program.                                               *)
(***************************************************************************)
\* image * 255; assert image_long_max <= 255
MaxIndex == 255
\* TensorType[..., 3]: an RGB triple per pixel
Channels == 3

(***************************************************************************)
(* Scalars a/2 + b*eps.                                                     *)
(***************************************************************************)
L(x, y) == [a |-> x, b |-> y]
L0 == L(0, 0)
\* 1.0
L1 == L(2, 0)
\* 1e-10 (line 53)
EPS == L(0, 1)

LAdd(x, y) == L(x.a + y.a, x.b + y.b)
LSub(x, y) == L(x.a - y.a, x.b - y.b)
LNeg(x) == L(0 - x.a, 0 - x.b)
LScale(k, x) == L(k * x.a, k * x.b)
LSign(x) ==
    IF x.a # 0 THEN (IF x.a > 0 THEN 1 ELSE -1)
    ELSE IF x.b > 0 THEN 1 ELSE IF x.b < 0 THEN -1 ELSE 0
LLe(x, y) == LSign(LSub(y, x)) >= 0
LLt(x, y) == LSign(LSub(y, x)) > 0

DTypes == {"float32", "float64"}

\* a float32 as precise as a float64
RoundExact(x, dtype) == x

\* the nearest value of the dtype
Round(x, dtype) ==
    IF dtype = "float32" /\ x.a # 0 THEN L(x.a, 0) ELSE x

(***************************************************************************)
(* Tensor elements.                                                        *)
(***************************************************************************)
Num(n, d) == [kind |-> "num", n |-> n, d |-> d]
NaN == [kind |-> "nan", n |-> L0, d |-> L0]
PosInf == [kind |-> "+inf", n |-> L0, d |-> L0]
NegInf == [kind |-> "-inf", n |-> L0, d |-> L0]
\* the value of a scalar as a tensor element
Elem(x) == Num(x, L1)

\* x / y, IEEE 754: no exception on a zero divisor
Div(x, y) ==
    IF LSign(y) > 0 THEN Num(x, y)
    ELSE IF LSign(y) < 0 THEN Num(LNeg(x), LNeg(y))
    ELSE IF LSign(x) > 0 THEN PosInf
    ELSE IF LSign(x) < 0 THEN NegInf
    ELSE NaN

\* a clip from below only
ClipBelow(v) ==
    CASE v.kind = "nan" -> NaN
      [] v.kind = "-inf" -> Elem(L0)
      [] v.kind = "+inf" -> v
      [] OTHER -> IF LSign(v.n) < 0 THEN Elem(L0) ELSE v

\* torch.clip(v, 0, 1); NaN is propagated
Clip(v) ==
    CASE v.kind = "nan" -> NaN
      [] v.kind = "+inf" -> Elem(L1)
      [] v.kind = "-inf" -> Elem(L0)
      [] OTHER -> IF LSign(v.n) < 0 THEN Elem(L0)
                  ELSE IF LLt(v.d, v.n) THEN Elem(L1)
                  ELSE v

(***************************************************************************)
(* apply_colormap (lines 9-27).                                            *)
(***************************************************************************)
\* a scaling by the number of rows instead of the last index
Times256(v) ==
    IF v.kind = "num" THEN Num(LScale(MaxIndex + 1, v.n), v.d) ELSE v

\* image * 255 (line 22), one element
Times255(v) ==
    IF v.kind = "num" THEN Num(LScale(MaxIndex, v.n), v.d) ELSE v

\* the integers of the model are 32 bits wide: an int64 above or below them
\* stands as LongMax or LongMin
LongMax == 2147483647
LongMin == -2147483647

\* the integer part of n/d for n >= 0, d > 0.  A quotient of halves by a
\* multiple of eps is above 1e9.
FloorPos(n, d) ==
    IF d.a # 0
    THEN LET k0 == n.a \div d.a
         IN  IF LLe(LScale(k0, d), n) THEN k0 ELSE k0 - 1
    ELSE IF n.a = 0 THEN n.b \div d.b
    ELSE LongMax

\* what a cast of NaN to int64 may give: the conversion is undefined; x86
\* gives the most negative integer, other targets give 0
NaNToLong == {LongMin, 0}

\* a cast that rounds down instead of toward zero
LongFloor(v, nanLong) ==
    IF v.kind # "num" THEN nanLong
    ELSE IF LSign(v.n) >= 0 THEN FloorPos(v.n, v.d)
    ELSE LET k == FloorPos(LNeg(v.n), v.d)
         IN  IF LScale(k, v.d) = LNeg(v.n) THEN 0 - k ELSE 0 - k - 1

\* .long() (line 22), one element: truncation toward zero
Long(v, nanLong) ==
    IF v.kind # "num" THEN nanLong
    ELSE IF LSign(v.n) >= 0 THEN FloorPos(v.n, v.d)
    ELSE 0 - FloorPos(LNeg(v.n), v.d)

RECURSIVE GCD(_, _)
GCD(m, n) == IF n = 0 THEN m ELSE GCD(n, m % n)

\* the fraction p/q in lowest terms: a colour channel or an accumulation
Rat(p, q) == LET g == GCD(p, q) IN <<p \div g, q \div g>>
RMul(x, y) == Rat(x[1] * y[1], x[2] * y[2])
RAdd(x, y) == Rat(x[1] * y[2] + y[1] * x[2], x[2] * y[2])
RSub(x, y) == Rat(x[1] * y[2] - y[1] * x[2], x[2] * y[2])

CMaps == {"viridis", "turbo"}

\* cm.get_cmap(cmap).colors (lines 20-21): 256 RGB rows with channels in
\* [0, 1].  The rows are matplotlib's; the model has a table of 256 distinct
\* rows for each name.
colormap(name) ==
    [i \in 0..MaxIndex |->
        IF name = "viridis"
        THEN <<Rat(i, MaxIndex), Rat(MaxIndex - i, MaxIndex),
               Rat((3 * i) % (MaxIndex + 1), MaxIndex)>>
        ELSE <<Rat(MaxIndex - i, MaxIndex), Rat((5 * i) % (MaxIndex + 1), MaxIndex),
               Rat(i, MaxIndex)>>]

Min(S) == CHOOSE x \in S : \A y \in S : x <= y
Max(S) == CHOOSE x \in S : \A y \in S : x >= y
Range(s) == {s[i] : i \in DOMAIN s}
\* shape[:-1]
Front(s) == SubSeq(s, 1, Len(s) - 1)

NoTensor == [shape |-> <<>>, data |-> <<>>, dtype |-> "none"]
Tensor(shape, data, dtype) == [shape |-> shape, data |-> data, dtype |-> dtype]

\* a lookup by image_long instead of image_long[..., 0]: the trailing
\* dimension of size 1 is kept
apply_colormap_keepdim(img, name, nanLong) ==
    LET long == [p \in DOMAIN img.data |-> Long(Times255(img.data[p]), nanLong)]
    IN  IF Min(Range(long)) >= 0 /\ Max(Range(long)) <= MaxIndex
        THEN [raised |-> FALSE,
              image_long |-> long,
              value |-> Tensor(img.shape \o <<Channels>>,
                              [p \in DOMAIN long |-> colormap(name)[long[p]]],
                              "float32")]
        ELSE [raised |-> TRUE, image_long |-> long, value |-> NoTensor]

\* lines 20-27.  raised: an assert failed, nothing is returned.
apply_colormap(img, name, nanLong) ==
    LET long == [p \in DOMAIN img.data |-> Long(Times255(img.data[p]), nanLong)]
        image_long_min == Min(Range(long))
        image_long_max == Max(Range(long))
    IN  IF image_long_min >= 0 /\ image_long_max <= MaxIndex
        THEN [raised |-> FALSE,
              image_long |-> long,
              value |-> Tensor(Front(img.shape) \o <<Channels>>,
                              [p \in DOMAIN long |-> colormap(name)[long[p]]],
                              "float32")]
        ELSE [raised |-> TRUE, image_long |-> long, value |-> NoTensor]

(***************************************************************************)
(* apply_depth_colormap (lines 30-62).                                     *)
(***************************************************************************)
\* an Optional[float] argument
NoPlane == [given |-> FALSE, v |-> L0]
Plane(x) == [given |-> TRUE, v |-> x]
\* Python's truth value of the argument: None and 0.0 are false
Truthy(plane) == plane.given /\ plane.v # L0

LMin(S) == CHOOSE x \in S : \A y \in S : LLe(x, y)
LMax(S) == CHOOSE x \in S : \A y \in S : LLe(y, x)

\* a local of lines 50-51: a Python float (py, a double) or a 0-dim tensor of
\* depth's dtype
NoLocal == [v |-> L0, py |-> FALSE]
\* near_plane or torch.min(depth)
NearOr(plane, d) ==
    IF Truthy(plane) THEN [v |-> plane.v, py |-> TRUE]
    ELSE [v |-> LMin(Range(d.data)), py |-> FALSE]
\* far_plane or torch.max(depth)
FarOr(plane, d) ==
    IF Truthy(plane) THEN [v |-> plane.v, py |-> TRUE]
    ELSE [v |-> LMax(Range(d.data)), py |-> FALSE]

\* a denominator without the 1e-10
DenominatorNoEps(nr, fr, dtype) ==
    LET prec == IF nr.py /\ fr.py THEN "float64" ELSE dtype
    IN  Round(Round(LSub(Round(fr.v, prec), Round(nr.v, prec)), prec), dtype)

\* far_plane - near_plane + 1e-10 (line 53): in double when both are Python
\* floats, else in the dtype of the 0-dim tensor; cast to depth's dtype by
\* the division
Denominator(nr, fr, dtype) ==
    LET prec == IF nr.py /\ fr.py THEN "float64" ELSE dtype
        diff == Round(LSub(Round(fr.v, prec), Round(nr.v, prec)), prec)
    IN  Round(Round(LAdd(diff, Round(EPS, prec)), prec), dtype)

\* a numerator with its operands swapped: near_plane - depth
NormalizeSwapped(d, nr, fr) ==
    LET den == Denominator(nr, fr, d.dtype)
    IN  Tensor(d.shape,
               [p \in DOMAIN d.data |->
                   Clip(Div(Round(LSub(Round(nr.v, d.dtype), d.data[p]), d.dtype),
                            den))],
               d.dtype)

\* (depth - near_plane) / (far_plane - near_plane + 1e-10), then clip
\* (lines 53-54)
Normalize(d, nr, fr) ==
    LET den == Denominator(nr, fr, d.dtype)
    IN  Tensor(d.shape,
               [p \in DOMAIN d.data |->
                   Clip(Div(Round(LSub(d.data[p], Round(nr.v, d.dtype)), d.dtype),
                            den))],
               d.dtype)

RONE == <<1, 1>>
\* a blend that leaves out the white background: colored_image * accumulation
BlendNoWhite(colored, acc) ==
    Tensor(colored.shape,
           [p \in DOMAIN colored.data |->
               [c \in 1..Channels |-> RMul(colored.data[p][c], acc.data[p])]],
           colored.dtype)

\* colored_image * accumulation + (1 - accumulation) (line 60), with the
\* mask's trailing dimension of size 1 broadcast over the channels
Blend(colored, acc) ==
    Tensor(colored.shape,
           [p \in DOMAIN colored.data |->
               [c \in 1..Channels |->
                   RAdd(RMul(colored.data[p][c], acc.data[p]),
                        RSub(RONE, acc.data[p]))]],
           colored.dtype)

\* lines 50-62
apply_depth_colormap(d, acc, nplane, fplane, name, nanLong) ==
    LET nr == NearOr(nplane, d)
        fr == FarOr(fplane, d)
        normalized == Normalize(d, nr, fr)
        got == apply_colormap(normalized, name, nanLong)
    IN  [near |-> nr, far |-> fr, image |-> normalized,
         image_long |-> got.image_long,
         colored_image |-> got.value,
         raised |-> got.raised,
         value |-> IF got.raised THEN NoTensor
                   ELSE IF acc # NoTensor THEN Blend(got.value, acc)
                   ELSE got.value]

(***************************************************************************)
(* The calls.                                                              *)
(***************************************************************************)
Tuples(n, V) == [1..n -> V]

\* apply_colormap's inputs: multiples of 1/510 from below 0 to above 1 ...
FineValues ==
    {Num(L(k, 0), L(2 * MaxIndex, 0)) :
        k \in (0 - ImageOver)..(2 * MaxIndex + ImageOver)}
\* ... and, in tensors of several pixels, the values around the two asserts
CoarseValues ==
    {Num(L(k, 0), L(2 * MaxIndex, 0)) :
        k \in {0 - 2, 0 - 1, 0, MaxIndex, 2 * MaxIndex, 2 * MaxIndex + 1,
               2 * MaxIndex + 2}}
Shapes(n) == {<<n, 1>>, <<1, n, 1>>}
Images ==
    {Tensor(s, <<v>>, t) : s \in Shapes(1), v \in FineValues, t \in DTypes}
    \cup UNION {{Tensor(s, x, t) : s \in Shapes(n), x \in Tuples(n, CoarseValues),
                                   t \in DTypes} : n \in 2..MaxPixels}

DepthValues ==
    {L(k, 0) : k \in 0..MaxDepth} \cup {L(0, k) : k \in {1, 2}}
Depths(maxn) ==
    UNION {{Tensor(<<n, 1>>, x, t) : x \in Tuples(n, DepthValues), t \in DTypes} :
              n \in 1..maxn}
Planes == {NoPlane} \cup {Plane(x) : x \in DepthValues}
Masks(n) ==
    {Tensor(<<n, 1>>, x, "float32") :
        x \in Tuples(n, {Rat(k, AccScale) : k \in 0..AccScale})}

Unset ==
    /\ pc = "call"
    /\ near = NoLocal
    /\ far = NoLocal
    /\ image_long = <<>>
    /\ colored_image = NoTensor
    /\ result = [raised |-> FALSE, value |-> NoTensor]

\* apply_colormap(image, cmap)
InitColormap ==
    /\ fn = "apply_colormap"
    /\ image \in Images
    /\ cmap \in CMaps
    /\ depth = NoTensor
    /\ accumulation = NoTensor
    /\ near_plane = NoPlane
    /\ far_plane = NoPlane

\* apply_depth_colormap(depth, None, near_plane, far_plane)
InitDepth ==
    /\ fn = "apply_depth_colormap"
    /\ image = NoTensor
    /\ cmap = "turbo"
    /\ depth \in Depths(MaxPixels)
    /\ accumulation = NoTensor
    /\ near_plane \in Planes
    /\ far_plane \in Planes

\* apply_depth_colormap(depth, accumulation)
InitBlend ==
    /\ fn = "apply_depth_colormap"
    /\ image = NoTensor
    /\ cmap = "turbo"
    /\ depth \in Depths(MaxMaskPixels)
    /\ accumulation \in Masks(Len(depth.data))
    /\ near_plane = NoPlane
    /\ far_plane = NoPlane

Init == Unset /\ (InitColormap \/ InitDepth \/ InitBlend)

ApplyColormap ==
    /\ pc = "call"
    /\ fn = "apply_colormap"
    /\ \E nanLong \in NaNToLong :
          \E got \in {apply_colormap(image, cmap, nanLong)} :
              /\ image_long' = got.image_long
              /\ result' = [raised |-> got.raised, value |-> got.value]
              /\ pc' = IF got.raised THEN "raise" ELSE "return"
    /\ UNCHANGED <<fn, image, depth, accumulation, near_plane, far_plane, cmap,
                   near, far, colored_image>>

ApplyDepthColormap ==
    /\ pc = "call"
    /\ fn = "apply_depth_colormap"
    /\ \E nanLong \in NaNToLong :
          \E got \in {apply_depth_colormap(depth, accumulation, near_plane,
                                          far_plane, cmap, nanLong)} :
              /\ near' = got.near
              /\ far' = got.far
              /\ image' = got.image
              /\ image_long' = got.image_long
              /\ colored_image' = got.colored_image
              /\ result' = [raised |-> got.raised, value |-> got.value]
              /\ pc' = IF got.raised THEN "raise" ELSE "return"
    /\ UNCHANGED <<fn, depth, accumulation, near_plane, far_plane, cmap>>

Next == ApplyColormap \/ ApplyDepthColormap

Spec == Init /\ [][Next]_vars

(***************************************************************************)
(* The claims.                                                             *)
(***************************************************************************)
\* the call has run (returned or raised)
ColormapDone == fn = "apply_colormap" /\ pc # "call"
DepthDone == fn = "apply_depth_colormap" /\ pc # "call"
InUnit(v) == v.kind = "num" /\ LSign(v.n) >= 0 /\ LLe(v.n, v.d)

\* torch.clip(depth, 0, 1)
ClipDepth ==
    Tensor(depth.shape,
           [p \in DOMAIN depth.data |-> Clip(Elem(depth.data[p]))],
           depth.dtype)

\* C1: apply_depth_colormap(depth, near_plane=0, far_plane=1, cmap=c) without
\* accumulation returns the colour image apply_colormap(clip(depth, 0, 1), c)
\* returns.
C1_DepthColormapIsColormapOfClip ==
    (DepthDone /\ near_plane = Plane(L0) /\ far_plane = Plane(L1)
        /\ accumulation = NoTensor)
    => /\ pc = "return"
       /\ result.value = apply_colormap(ClipDepth, cmap, 0).value

\* C2 as stated: apply_colormap raises whenever some pixel v has v*255 < 0 or
\* v*255 > 255.
C2_OutOfRangeValueAlwaysFails ==
    ColormapDone
    => ((\E p \in DOMAIN image.data :
            LSign(image.data[p].n) < 0 \/ LLt(image.data[p].d, image.data[p].n))
        => pc = "raise")

\* C2 amended: apply_colormap raises exactly when some pixel v has
\* v*255 <= -1 or v*255 >= 256; a pixel with -1 < v*255 < 0 selects row 0 and
\* a pixel with 255 < v*255 < 256 selects row 255 when the call returns.
C2_FailsIffTruncatedIndexOutOfRange ==
    ColormapDone
    => /\ pc = "raise" <=>
             \E p \in DOMAIN image.data :
                LET v == image.data[p]
                IN  \/ LLe(LScale(MaxIndex, v.n), LNeg(v.d))
                    \/ LLe(LScale(MaxIndex + 1, v.d), LScale(MaxIndex, v.n))
       /\ pc = "return" =>
             \A p \in DOMAIN image.data :
                LET v == image.data[p]
                IN  /\ LSign(v.n) < 0 => result.value.data[p] = colormap(cmap)[0]
                    /\ LLt(v.d, v.n) => result.value.data[p] = colormap(cmap)[MaxIndex]

\* C2 witness: a call that returned although a pixel is negative and another
\* is above 1.
C2_Witness ==
    /\ ColormapDone
    /\ pc = "return"
    /\ \E p, q \in DOMAIN image.data :
          /\ LSign(image.data[p].n) < 0
          /\ LLt(image.data[q].d, image.data[q].n)
          /\ image_long[p] = 0
          /\ image_long[q] = MaxIndex

\* C3: the lower bound of the normalization is near_plane whenever it is not
\* None and the minimum of depth only when it is None; likewise far_plane and
\* the maximum.
C3_SuppliedPlanesAreTheBounds ==
    DepthDone
    => /\ near.v = IF near_plane.given THEN near_plane.v
                   ELSE LMin(Range(depth.data))
       /\ far.v = IF far_plane.given THEN far_plane.v
                  ELSE LMax(Range(depth.data))

\* C4: in a returned call, a pixel with value v in [0, 1] selects the row i of
\* the named table with i <= v*255 < i + 1; so a pixel of value i/255 selects
\* row i.
C4_ValueSelectsTruncatedRow ==
    (ColormapDone /\ pc = "return")
    => \A p \in DOMAIN image.data :
          InUnit(image.data[p])
          => \E i \in {image_long[p]} :
                /\ i \in 0..MaxIndex
                /\ LLe(LScale(i, image.data[p].d), LScale(MaxIndex, image.data[p].n))
                /\ LLt(LScale(MaxIndex, image.data[p].n), LScale(i + 1, image.data[p].d))
                /\ result.value.data[p] = colormap(cmap)[i]

\* C4 witness: a returned call on the pixel 200/255, which selected row 200.
C4_Witness ==
    /\ ColormapDone
    /\ pc = "return"
    /\ image.data[1] = Num(L(400, 0), L(2 * MaxIndex, 0))
    /\ image_long[1] = 200
    /\ result.value.data[1] = colormap(cmap)[200]

\* C5: with an accumulation mask the result is colour*accumulation +
\* (1 - accumulation) in every channel of every pixel: the result of the call
\* without a mask when the mask is 1 everywhere, white when it is 0
\* everywhere.
C5_Blend ==
    (DepthDone /\ accumulation # NoTensor /\ pc = "return")
    => /\ (\A p \in DOMAIN accumulation.data : accumulation.data[p] = <<1, 1>>)
             => result.value = apply_depth_colormap(depth, NoTensor, near_plane,
                                                    far_plane, cmap, 0).value
       /\ (\A p \in DOMAIN accumulation.data : accumulation.data[p] = <<0, 1>>)
             => \A p \in DOMAIN result.value.data :
                   result.value.data[p] = <<RONE, RONE, RONE>>
       /\ result.value.shape = colored_image.shape
       /\ \A p \in DOMAIN result.value.data : \A c \in 1..Channels :
             LET col == colored_image.data[p][c]
                 acc == accumulation.data[p]
                 got == result.value.data[p][c]
             IN  got[1] * col[2] * acc[2]
                    = got[2] * (col[1] * acc[1] + col[2] * (acc[2] - acc[1]))

\* C5 witness: a returned call whose mask is strictly between 0 and 1 at one
\* pixel and 1 at another.
C5_Witness ==
    /\ DepthDone
    /\ accumulation # NoTensor
    /\ pc = "return"
    /\ \E p, q \in DOMAIN accumulation.data :
          /\ accumulation.data[p] \notin {<<0, 1>>, <<1, 1>>}
          /\ accumulation.data[q] = <<1, 1>>
          /\ result.value.data[p] # colored_image.data[p]
          /\ result.value.data[q] = colored_image.data[q]

C8Call ==
    /\ DepthDone
    /\ depth.data = <<L0, L(1, 0), L1>>
    /\ near_plane = Plane(L0)
    /\ far_plane = Plane(L1)
    /\ accumulation = NoTensor

\* C8 as stated: the three pixels select rows 0, 127 or 128, and 255.
C8_RowsOfTheExample ==
    C8Call
    => /\ pc = "return"
       /\ image_long[1] = 0
       /\ image_long[2] \in {127, 128}
       /\ image_long[3] = MaxIndex

\* C8 amended: the three pixels select rows 0, 127 and 255 when depth is a
\* float32 tensor, and rows 0, 127 and 254 when it is a float64 tensor.
C8_RowsOfTheExampleByDtype ==
    C8Call
    => /\ pc = "return"
       /\ image_long[1] = 0
       /\ image_long[2] = 127
       /\ image_long[3] = IF depth.dtype = "float32" THEN MaxIndex ELSE MaxIndex - 1
       /\ result.value.data = [p \in 1..3 |-> colormap(cmap)[image_long[p]]]

\* C8 witness: the call on a float64 depth, whose last pixel selected row 254.
C8_Witness ==
    /\ C8Call
    /\ depth.dtype = "float64"
    /\ pc = "return"
    /\ image_long = <<0, 127, MaxIndex - 1>>

\* C9 as stated: whatever the depth and the planes, every index that
\* apply_depth_colormap hands to the table lies in 0..255 and no assert fails.
C9_IndicesAlwaysInRange ==
    DepthDone
    => /\ pc = "return"
       /\ \A p \in DOMAIN image_long : image_long[p] \in 0..MaxIndex

\* some pixel's normalization is 0/0
ZeroOverZero ==
    /\ Denominator(near, far, depth.dtype) = L0
    /\ \E p \in DOMAIN depth.data :
          Round(LSub(depth.data[p], Round(near.v, depth.dtype)), depth.dtype) = L0

\* C9 amended: unless some pixel's normalization is 0/0 (far_plane -
\* near_plane + 1e-10 evaluates to 0 and the pixel's depth equals near_plane),
\* every index lies in 0..255 and no assert fails.
C9_IndicesInRangeUnlessNaN ==
    (DepthDone /\ ~ZeroOverZero)
    => /\ pc = "return"
       /\ \A p \in DOMAIN image_long : image_long[p] \in 0..MaxIndex

\* C9 witness: near_plane > far_plane and a zero denominator, with every
\* pixel above near_plane: the call returned.
C9_Witness ==
    /\ DepthDone
    /\ pc = "return"
    /\ LLt(far.v, near.v)
    /\ Denominator(near, far, depth.dtype) = L0
    /\ \A p \in DOMAIN image_long : image_long[p] = MaxIndex

\* C10: when the upper bound is above the lower bound, the index is monotone
\* in the depth, and a pixel at or below the lower bound gets index 0.
C10_IndexMonotoneInDepth ==
    (DepthDone /\ LLt(near.v, far.v))
    => /\ pc = "return"
       /\ \A p, q \in DOMAIN depth.data :
             LLe(depth.data[p], depth.data[q]) => image_long[p] <= image_long[q]
       /\ \A p \in DOMAIN depth.data :
             LLe(depth.data[p], near.v) => image_long[p] = 0

\* C10 witness: three pixels of increasing depth with increasing indices,
\* the middle one inside 1..254.
C10_Witness ==
    /\ DepthDone
    /\ pc = "return"
    /\ LLt(near.v, far.v)
    /\ \E p, q, r \in DOMAIN depth.data :
          /\ LLt(depth.data[p], depth.data[q])
          /\ LLt(depth.data[q], depth.data[r])
          /\ 0 < image_long[q]
          /\ image_long[p] < image_long[q]
          /\ image_long[q] < image_long[r]
====
